---- MODULE Spec2Model ----
(***************************************************************************)
(* Postmark MCP server: the tool registrations, their zod input schemas,   *)
(* the handlers' mapping of arguments onto provider requests, and the      *)
(* results they return.                                                    *)
(*                                                                         *)
(* The repository holds three variants of the server script.  The          *)
(* variable build says which one is running:                               *)
(*   "legacy"   src/postmark-mcp-server.js (the same handlers are in       *)
(*              src/unnamed/part_001:429-766, and src/unnamed/part_002 is  *)
(*              its sendEmail tool alone)                                  *)
(*   "full"     src/unnamed/part_003:308-776                               *)
(*   "trycatch" src/unnamed/part_003:1-307                                 *)
(*                                                                         *)
(* JavaScript values are records [t |-> type tag, v |-> value]; an absent  *)
(* argument is Undefined.  Strings are TLA+ strings and are taken apart    *)
(* character by character where the code does so (trim, regex tests).      *)
(***************************************************************************)
EXTENDS Integers, Sequences, FiniteSets, TLC

VARIABLES build, env, pc, registry, connected, calls

vars == <<build, env, pc, registry, connected, calls>>

(***************************************************************************)
(* JavaScript values                                                       *)
(***************************************************************************)
Undefined == [t |-> "undefined", v |-> 0]

Str(s) == [t |-> "string", v |-> s]

Num(n) == [t |-> "number", v |-> n]

Bool(b) == [t |-> "boolean", v |-> b]

NaN == [t |-> "nan", v |-> 0]

Obj(o) == [t |-> "object", v |-> o]

Arr(a) == [t |-> "array", v |-> a]

\* ToBoolean: what `!x`, `x || y`, `x && y` and `if (x)` test.
Truthy(x) ==
  CASE x.t = "undefined" -> FALSE
    [] x.t = "string" -> x.v # ""
    [] x.t = "number" -> x.v # 0
    [] x.t = "boolean" -> x.v
    [] x.t = "nan" -> FALSE
    [] OTHER -> TRUE

\* a || b
\* `a ?? b`: only undefined gives way to b.
JsOr_Nullish(a, b) == IF a = Undefined THEN b ELSE a

JsOr(a, b) == IF Truthy(a) THEN a ELSE b

\* A destructured parameter that the caller did not supply is undefined.
Get(args, f) == IF f \in DOMAIN args THEN args[f] ELSE Undefined

\* `x || d` in place of a default value: d replaces every falsy x.
Default_IfFalsy(x, d) ==
  IF x = Undefined \/ x = Num(0) \/ x = Str("") \/ x = Bool(FALSE) THEN d ELSE x

\* A destructuring default, `{ f = d }`: d replaces undefined only.
Default(x, d) == IF x = Undefined THEN d ELSE x

(***************************************************************************)
(* Strings                                                                 *)
(***************************************************************************)
Char(s, i) == SubSeq(s, i, i)

Digits == {"0", "1", "2", "3", "4", "5", "6", "7", "8", "9"}

\* String.prototype.trim over the blank character.
FirstNonBlank(s) ==
  IF \E i \in 1..Len(s) : Char(s, i) # " "
  THEN CHOOSE i \in 1..Len(s) :
         Char(s, i) # " " /\ \A j \in 1..(i - 1) : Char(s, j) = " "
  ELSE Len(s) + 1

LastNonBlank(s) ==
  IF \E i \in 1..Len(s) : Char(s, i) # " "
  THEN CHOOSE i \in 1..Len(s) :
         Char(s, i) # " " /\ \A j \in (i + 1)..Len(s) : Char(s, j) = " "
  ELSE 0

Trim(s) == SubSeq(s, FirstNonBlank(s), LastNonBlank(s))

\* zod's .email(): one "@", a non-empty local part, a dotted domain whose
\* labels are non-empty, no blank.
IsEmail(s) ==
  LET ats == {i \in 1..Len(s) : Char(s, i) = "@"}
  IN /\ Cardinality(ats) = 1
     /\ \A i \in 1..Len(s) : Char(s, i) # " "
     /\ LET at == CHOOSE i \in ats : TRUE
            dots == {i \in (at + 1)..Len(s) : Char(s, i) = "."}
        IN /\ at > 1
           /\ Char(s, 1) # "."
           /\ dots # {}
           /\ \A d \in dots : d > at + 1 /\ d < Len(s) /\ (d + 1) \notin dots

\* /^\d{4}-\d{2}-\d{2}$/
IsDate(s) ==
  /\ Len(s) = 10
  /\ \A i \in 1..10 :
       IF i \in {5, 8} THEN Char(s, i) = "-" ELSE Char(s, i) \in Digits

(***************************************************************************)
(* zod schemas                                                             *)
(***************************************************************************)
ZString == [kind |-> "string", optional |-> FALSE]

ZEmail == [kind |-> "email", optional |-> FALSE]

ZNumber == [kind |-> "number", optional |-> FALSE]

ZLiteral(x) == [kind |-> "literal", optional |-> FALSE, lit |-> x]

ZDateRegex == [kind |-> "date", optional |-> FALSE]

\* z.object({}) without .passthrough(): unknown keys are stripped.
ZStripObject == [kind |-> "stripobject", optional |-> FALSE]

ZPassthroughObject == [kind |-> "object", optional |-> FALSE]

ZArrayOf(shape) == [kind |-> "array", optional |-> FALSE, elem |-> shape]

Optional(d) == [d EXCEPT !.optional = TRUE]

\* One scalar field against its descriptor.
ScalarOK(d, x) ==
  IF x = Undefined THEN d.optional
  ELSE CASE d.kind = "string" -> x.t = "string"
         [] d.kind = "email" -> x.t = "string" /\ IsEmail(x.v)
         [] d.kind = "date" -> x.t = "string" /\ IsDate(x.v)
         [] d.kind = "number" -> x.t = "number"
         [] d.kind = "literal" -> x = d.lit
         [] d.kind = "object" -> x.t = "object"
         [] d.kind = "stripobject" -> x.t = "object"
         [] OTHER -> FALSE

\* z.object(shape) applied to an object value (a function from keys to values).
ShapeOK(shape, o) == \A f \in DOMAIN shape : ScalarOK(shape[f], Get(o, f))

FieldOK(d, x) ==
  IF d.kind = "array"
  THEN /\ x.t = "array"
       /\ \A i \in 1..Len(x.v) : x.v[i].t = "object" /\ ShapeOK(d.elem, x.v[i].v)
  ELSE ScalarOK(d, x)

\* The fields a safeParse of args against the tool's shape reports.
InvalidFields(shape, args) ==
  {f \in DOMAIN shape : ~FieldOK(shape[f], Get(args, f))}

\* The value a successful parse hands on for one field: an object parsed by a
\* shape without keys keeps its members only with .passthrough().
ZParse(d, x) ==
  IF x = Undefined THEN Undefined
  ELSE IF d.kind = "stripobject" THEN Obj(<<>>)
  ELSE x

\* The arguments a handler receives: the declared keys, parsed; keys the shape
\* does not declare are stripped.
Parsed(shape, args) ==
  [f \in DOMAIN args |->
     IF f \in DOMAIN shape THEN ZParse(shape[f], args[f]) ELSE Undefined]

\* Tool schemas of src/postmark-mcp-server.js.
sendEmailSchema_legacy ==
  [to |-> ZEmail, subject |-> ZString, textBody |-> ZString,
   from |-> Optional(ZString), messageStream |-> Optional(ZString)]

sendEmailBatchSchema_legacy ==
  [messages |-> ZArrayOf(sendEmailSchema_legacy)]

sendEmailWithTemplateSchema_legacy ==
  [to |-> ZEmail, templateId |-> ZNumber, templateModel |-> ZPassthroughObject,
   from |-> Optional(ZString), messageStream |-> Optional(ZString)]

getDeliveryStatsSchema_legacy == <<>>

\* The sendEmail shape with `to: z.string()`, no email format.
sendEmailSchema_NoEmailFormat ==
  [from |-> Optional(ZString), to |-> ZString, subject |-> ZString,
   textBody |-> ZString, messageStream |-> Optional(ZString),
   tag |-> Optional(ZString), trackOpens |-> ZLiteral(Bool(TRUE)),
   trackLinks |-> ZLiteral(Str("HtmlAndText"))]

\* Tool schemas of src/unnamed/part_003:308-776.
sendEmailSchema ==
  [from |-> Optional(ZString), to |-> ZEmail, subject |-> ZString,
   textBody |-> ZString, messageStream |-> Optional(ZString),
   tag |-> Optional(ZString), trackOpens |-> ZLiteral(Bool(TRUE)),
   trackLinks |-> ZLiteral(Str("HtmlAndText"))]

sendEmailBatchSchema ==
  [messages |-> ZArrayOf(
     [to |-> ZEmail, subject |-> ZString, textBody |-> ZString,
      from |-> Optional(ZString), messageStream |-> Optional(ZString),
      trackOpens |-> ZLiteral(Bool(TRUE)),
      trackLinks |-> ZLiteral(Str("HtmlAndText"))])]

sendEmailWithTemplateSchema ==
  [to |-> ZEmail, templateId |-> Optional(ZNumber),
   templateAlias |-> Optional(ZString), templateModel |-> ZPassthroughObject,
   from |-> Optional(ZString), messageStream |-> Optional(ZString),
   tag |-> Optional(ZString), trackOpens |-> ZLiteral(Bool(TRUE)),
   trackLinks |-> ZLiteral(Str("HtmlAndText"))]

createTemplateSchema ==
  [name |-> ZString, subject |-> ZString, htmlBody |-> ZString,
   textBody |-> Optional(ZString), alias |-> Optional(ZString)]

updateTemplateSchema ==
  [templateId |-> ZNumber, name |-> Optional(ZString),
   subject |-> Optional(ZString), htmlBody |-> Optional(ZString),
   textBody |-> Optional(ZString), alias |-> Optional(ZString)]

listTemplatesSchema == <<>>

getTemplateSchema == [templateId |-> ZNumber]

getDeliveryStatsSchema ==
  [tag |-> Optional(ZString), fromDate |-> Optional(ZString),
   toDate |-> Optional(ZString), messageStream |-> Optional(ZString)]

getOutboundMessagesSchema ==
  [count |-> Optional(ZNumber), offset |-> Optional(ZNumber)]

createDomainSchema == [name |-> ZString, returnPathDomain |-> Optional(ZString)]

verifyDomainSchema == [domainId |-> ZNumber]

\* Tool schema of src/unnamed/part_003:1-307 that differs from the above.
getDeliveryStatsSchema_trycatch ==
  [tag |-> Optional(ZString), fromDate |-> Optional(ZDateRegex),
   toDate |-> Optional(ZDateRegex), messageStream |-> Optional(ZString)]

(***************************************************************************)
(* Process configuration                                                   *)
(***************************************************************************)
serverToken == env.POSTMARK_SERVER_TOKEN

defaultSender == env.DEFAULT_SENDER_EMAIL

defaultMessageStream == env.DEFAULT_MESSAGE_STREAM

\* The checks with `x === undefined` in place of `!x`: the empty string passes.
ConfigPresent_UndefinedOnly ==
  /\ env.POSTMARK_SERVER_TOKEN # Undefined
  /\ env.DEFAULT_SENDER_EMAIL # Undefined
  /\ env.DEFAULT_MESSAGE_STREAM # Undefined

\* The three `if (!x) throw` checks at the top of the script.
ConfigPresent ==
  /\ Truthy(serverToken)
  /\ Truthy(defaultSender)
  /\ Truthy(defaultMessageStream)

(***************************************************************************)
(* Values that come back from the provider.  An object of a response is a  *)
(* sequence of <<key, value>> pairs, in the order of its JSON text.        *)
(***************************************************************************)
PObj(pairs) == [t |-> "object", v |-> pairs]

\* result.key
Prop(o, k) ==
  IF o.t = "object" /\ \E i \in 1..Len(o.v) : o.v[i][1] = k
  THEN o.v[CHOOSE i \in 1..Len(o.v) : o.v[i][1] = k][2]
  ELSE Undefined

RECURSIVE JsonStringify(_)
RECURSIVE JsonJoin(_, _)
\* The members of an array (obj = FALSE) or object (obj = TRUE), comma-separated.
JsonJoin(items, obj) ==
  IF Len(items) = 0 THEN ""
  ELSE LET h == IF obj
                THEN "\"" \o items[1][1] \o "\":" \o JsonStringify(items[1][2])
                ELSE JsonStringify(items[1])
       IN IF Len(items) = 1 THEN h ELSE h \o "," \o JsonJoin(Tail(items), obj)

\* JSON.stringify
JsonStringify(x) ==
  CASE x.t = "string" -> "\"" \o x.v \o "\""
    [] x.t = "number" -> ToString(x.v)
    [] x.t = "boolean" -> IF x.v THEN "true" ELSE "false"
    [] x.t = "array" -> "[" \o JsonJoin(x.v, FALSE) \o "]"
    [] x.t = "object" -> "{" \o JsonJoin(x.v, TRUE) \o "}"
    [] OTHER -> "undefined"

\* `${x}` of a template literal.
TemplateText(x) ==
  CASE x.t = "string" -> x.v
    [] x.t = "number" -> ToString(x.v)
    [] x.t = "boolean" -> IF x.v THEN "true" ELSE "false"
    [] x.t = "nan" -> "NaN"
    [] x.t = "undefined" -> "undefined"
    [] OTHER -> "[object Object]"

TextSegment(s) == [type |-> "text", text |-> s]

\* What a handler does when it runs: it suspends at an upstream call, it
\* returns a result, or it throws.
Await(op, req) == [k |-> "await", op |-> op, req |-> req]

Returned(content) == [kind |-> "returned", content |-> content]

\* An Error object.
Error(name, message) == [name |-> name, message |-> message]

Threw(error) == [kind |-> "threw", error |-> error]

\* error.message || 'Unknown error'
MessageOrUnknown(message) == IF message # "" THEN message ELSE "Unknown error"

\* err.toString()
ErrorToString(error) ==
  IF error.message # "" THEN error.name \o ": " \o error.message ELSE error.name

\* throw new Error(message)
Throw(message) == [k |-> "throw", error |-> Error("Error", message)]

(***************************************************************************)
(* Email sending tools                                                     *)
(***************************************************************************)
\* src/postmark-mcp-server.js: sendEmail, up to `await client.sendEmail`.
sendEmail_legacy(args) ==
  Await("sendEmail",
        [From |-> JsOr(Get(args, "from"), defaultSender),
         To |-> Get(args, "to"),
         Subject |-> Get(args, "subject"),
         TextBody |-> Get(args, "textBody"),
         MessageStream |-> JsOr(Get(args, "messageStream"), defaultMessageStream)])

\* The tag sent without the blanks around it.
WithTag_Trimmed(payload, tag) ==
  IF Truthy(tag) /\ Trim(tag.v) # "" THEN payload @@ [Tag |-> Str(Trim(tag.v))] ELSE payload

\* `if (tag && tag.trim() !== "") payload.Tag = tag`
WithTag(payload, tag) ==
  IF Truthy(tag) /\ Trim(tag.v) # "" THEN payload @@ [Tag |-> tag] ELSE payload

\* The payload with the caller's from and messageStream ignored.
sendEmailPayload_DefaultsOnly(args) ==
  [From |-> defaultSender,
   To |-> Get(args, "to"),
   Subject |-> Get(args, "subject"),
   TextBody |-> Get(args, "textBody"),
   MessageStream |-> defaultMessageStream,
   TrackOpens |-> Bool(TRUE),
   TrackLinks |-> Str("HtmlAndText")]

\* part_003: the payload object literal of sendEmail.
sendEmailPayload(args) ==
  [From |-> JsOr(Get(args, "from"), defaultSender),
   To |-> Get(args, "to"),
   Subject |-> Get(args, "subject"),
   TextBody |-> Get(args, "textBody"),
   MessageStream |-> JsOr(Get(args, "messageStream"), defaultMessageStream),
   TrackOpens |-> Bool(TRUE),
   TrackLinks |-> Str("HtmlAndText")]

\* part_003: sendEmail, up to `await client.sendEmail(payload)`.
sendEmail(args) ==
  Await("sendEmail", WithTag(sendEmailPayload(args), Get(args, "tag")))

\* The text returned once client.sendEmail has resolved.
sendEmailResult(result) ==
  Returned(<<TextSegment("Email sent! MessageID: "
                         \o TemplateText(Prop(result, "MessageID")))>>)

\* src/postmark-mcp-server.js: one element of messages.map(...).
batchMessage_legacy(msg) ==
  [From |-> JsOr(Get(msg, "from"), defaultSender),
   To |-> Get(msg, "to"),
   Subject |-> Get(msg, "subject"),
   TextBody |-> Get(msg, "textBody"),
   MessageStream |-> JsOr(Get(msg, "messageStream"), defaultMessageStream)]

\* part_003: one element of messages.map(...).
batchMessage(msg) ==
  [From |-> JsOr(Get(msg, "from"), defaultSender),
   To |-> Get(msg, "to"),
   Subject |-> Get(msg, "subject"),
   TextBody |-> Get(msg, "textBody"),
   MessageStream |-> JsOr(Get(msg, "messageStream"), defaultMessageStream),
   TrackOpens |-> Bool(TRUE),
   TrackLinks |-> Str("HtmlAndText")]

sendEmailBatch_legacy(args) ==
  LET messages == Get(args, "messages").v
  IN Await("sendEmailBatch",
           [i \in 1..Len(messages) |-> batchMessage_legacy(messages[i].v)])

\* The handler taking sender and stream of every element from the first message.
sendEmailBatch_FirstMessageDefaults(args) ==
  LET messages == Get(args, "messages").v
  IN Await("sendEmailBatch",
           [i \in 1..Len(messages) |->
              [batchMessage(messages[i].v) EXCEPT
                 !.From = batchMessage(messages[1].v).From,
                 !.MessageStream = batchMessage(messages[1].v).MessageStream]])

sendEmailBatch(args) ==
  LET messages == Get(args, "messages").v
  IN Await("sendEmailBatch",
           [i \in 1..Len(messages) |-> batchMessage(messages[i].v)])

sendEmailBatchResult(result) ==
  Returned(<<TextSegment("Batch sent! Results: " \o JsonStringify(result))>>)

\* src/postmark-mcp-server.js: sendEmailWithTemplate.
sendEmailWithTemplate_legacy(args) ==
  Await("sendEmailWithTemplate",
        [From |-> JsOr(Get(args, "from"), defaultSender),
         To |-> Get(args, "to"),
         TemplateId |-> Get(args, "templateId"),
         TemplateModel |-> Get(args, "templateModel"),
         MessageStream |-> JsOr(Get(args, "messageStream"), defaultMessageStream)])

\* part_003: the payload object literal of sendEmailWithTemplate.
templatePayload(args) ==
  [From |-> JsOr(Get(args, "from"), defaultSender),
   To |-> Get(args, "to"),
   TemplateModel |-> Get(args, "templateModel"),
   MessageStream |-> JsOr(Get(args, "messageStream"), defaultMessageStream),
   TrackOpens |-> Bool(TRUE),
   TrackLinks |-> Str("HtmlAndText")]

\* The handler without its final else branch: a call with no identifier is sent.
sendEmailWithTemplate_NoIdentifierCheck(args) ==
  LET templateId == Get(args, "templateId")
      templateAlias == Get(args, "templateAlias")
      payload == templatePayload(args)
  IN IF Truthy(templateId)
     THEN Await("sendEmailWithTemplate",
                WithTag(payload @@ [TemplateId |-> templateId], Get(args, "tag")))
     ELSE Await("sendEmailWithTemplate",
                WithTag(payload @@ [TemplateAlias |-> templateAlias],
                        Get(args, "tag")))

\* The handler testing `templateId !== undefined`: 0 counts as an identifier.
sendEmailWithTemplate_DefinedId(args) ==
  LET templateId == Get(args, "templateId")
      templateAlias == Get(args, "templateAlias")
      payload == templatePayload(args)
  IN IF templateId # Undefined
     THEN Await("sendEmailWithTemplate",
                WithTag(payload @@ [TemplateId |-> templateId], Get(args, "tag")))
     ELSE IF Truthy(templateAlias)
     THEN Await("sendEmailWithTemplate",
                WithTag(payload @@ [TemplateAlias |-> templateAlias],
                        Get(args, "tag")))
     ELSE Throw("Either templateId or templateAlias must be provided.")

\* The handler with two independent tests: each identifier found is sent.
sendEmailWithTemplate_EachIdentifier(args) ==
  LET templateId == Get(args, "templateId")
      templateAlias == Get(args, "templateAlias")
      withId == IF Truthy(templateId)
                THEN templatePayload(args) @@ [TemplateId |-> templateId]
                ELSE templatePayload(args)
      payload == IF Truthy(templateAlias)
                 THEN withId @@ [TemplateAlias |-> templateAlias]
                 ELSE withId
  IN IF Truthy(templateId) \/ Truthy(templateAlias)
     THEN Await("sendEmailWithTemplate", WithTag(payload, Get(args, "tag")))
     ELSE Throw("Either templateId or templateAlias must be provided.")

\* The handler with the two identifier tests in the other order.
sendEmailWithTemplate_AliasFirst(args) ==
  LET templateId == Get(args, "templateId")
      templateAlias == Get(args, "templateAlias")
      payload == templatePayload(args)
  IN IF Truthy(templateAlias)
     THEN Await("sendEmailWithTemplate",
                WithTag(payload @@ [TemplateAlias |-> templateAlias],
                        Get(args, "tag")))
     ELSE IF Truthy(templateId)
     THEN Await("sendEmailWithTemplate",
                WithTag(payload @@ [TemplateId |-> templateId], Get(args, "tag")))
     ELSE Throw("Either templateId or templateAlias must be provided.")

\* part_003: sendEmailWithTemplate, up to `await client.sendEmailWithTemplate`.
sendEmailWithTemplate(args) ==
  LET templateId == Get(args, "templateId")
      templateAlias == Get(args, "templateAlias")
      payload == templatePayload(args)
  IN IF Truthy(templateId)
     THEN Await("sendEmailWithTemplate",
                WithTag(payload @@ [TemplateId |-> templateId], Get(args, "tag")))
     ELSE IF Truthy(templateAlias)
     THEN Await("sendEmailWithTemplate",
                WithTag(payload @@ [TemplateAlias |-> templateAlias],
                        Get(args, "tag")))
     ELSE Throw("Either templateId or templateAlias must be provided.")

sendEmailWithTemplateResult(result) ==
  Returned(<<TextSegment("Email sent with template! MessageID: "
                         \o TemplateText(Prop(result, "MessageID")))>>)

(***************************************************************************)
(* Template, message-history and domain tools                              *)
(***************************************************************************)
createTemplate(args) ==
  Await("createTemplate",
        [Name |-> Get(args, "name"),
         Subject |-> Get(args, "subject"),
         HtmlBody |-> Get(args, "htmlBody"),
         TextBody |-> JsOr(Get(args, "textBody"), Str("")),
         Alias |-> Get(args, "alias")])

createTemplateResult(result) ==
  Returned(<<TextSegment("Template created! ID: "
                         \o TemplateText(Prop(result, "TemplateId")))>>)

\* The handler keeping only the update fields with a truthy value.
updateTemplate_TruthyFields(args) ==
  LET keys == {f \in DOMAIN updateTemplateSchema \ {"templateId"} :
                 Truthy(Get(args, f))}
  IN Await("editTemplate",
           [templateId |-> Get(args, "templateId"),
            fields |-> [f \in keys |-> args[f]]])

\* The handler passing every update field, supplied or not.
updateTemplate_AllFields(args) ==
  Await("editTemplate",
        [templateId |-> Get(args, "templateId"),
         fields |-> [f \in DOMAIN updateTemplateSchema \ {"templateId"} |->
                       args[f]]])

\* `({ templateId, ...fields })`: the parsed keys other than templateId.
updateTemplate(args) ==
  LET keys == {f \in DOMAIN updateTemplateSchema \ {"templateId"} :
                 Get(args, f) # Undefined}
  IN Await("editTemplate",
           [templateId |-> Get(args, "templateId"),
            fields |-> [f \in keys |-> args[f]]])

updateTemplateResult(result) ==
  Returned(<<TextSegment("Template updated! ID: "
                         \o TemplateText(Prop(result, "TemplateId")))>>)

listTemplates(args) == Await("getTemplates", <<>>)

listTemplatesResult(result) ==
  Returned(<<TextSegment(JsonStringify(Prop(result, "Templates")))>>)

getTemplate(args) == Await("getTemplate", [templateId |-> Get(args, "templateId")])

getTemplateResult(result) == Returned(<<TextSegment(JsonStringify(result))>>)

DefaultCount == 10

DefaultOffset == 0

\* The handler with `{ count, offset }`, no default values.
getOutboundMessages_NoDefaults(args) ==
  Await("getOutboundMessages",
        [count |-> Get(args, "count"), offset |-> Get(args, "offset")])

\* `async ({ count = 10, offset = 0 })`
getOutboundMessages(args) ==
  Await("getOutboundMessages",
        [count |-> Default(Get(args, "count"), Num(DefaultCount)),
         offset |-> Default(Get(args, "offset"), Num(DefaultOffset))])

\* The result as a segment of type "json".
getOutboundMessagesResult_JsonSegment(result) ==
  Returned(<<[type |-> "json", text |-> JsonStringify(Prop(result, "Messages"))]>>)

getOutboundMessagesResult(result) ==
  Returned(<<TextSegment(JsonStringify(Prop(result, "Messages")))>>)

createDomain(args) ==
  Await("createDomain",
        [Name |-> Get(args, "name"),
         ReturnPathDomain |-> Get(args, "returnPathDomain")])

createDomainResult(result) ==
  Returned(<<TextSegment("Domain created! ID: " \o TemplateText(Prop(result, "ID")))>>)

verifyDomainDKIM(args) ==
  Await("verifyDomainDKIM", [domainId |-> Get(args, "domainId")])

verifyDomainDKIMResult(result) ==
  Returned(<<TextSegment("DKIM verification: " \o JsonStringify(result))>>)

verifyDomainReturnPath(args) ==
  Await("verifyDomainReturnPath", [domainId |-> Get(args, "domainId")])

verifyDomainReturnPathResult(result) ==
  Returned(<<TextSegment("Return path verification: " \o JsonStringify(result))>>)

(***************************************************************************)
(* Delivery statistics                                                     *)
(***************************************************************************)
\* A JavaScript number that is a ratio of integers, d > 0.
Ratio(n, d) == [n |-> n, d |-> d]

\* Math.min(a, b)
MathMin(a, b) == IF a.n * b.d <= b.n * a.d THEN a ELSE b

Pow10(k) == IF k = 0 THEN 1 ELSE IF k = 1 THEN 10 ELSE 100

\* Number.prototype.toFixed(digits) of a non-negative ratio: the nearest
\* multiple of 10^-digits, the larger one of two equally near, written with
\* exactly `digits` decimals.
ToFixed(r, digits) ==
  LET scale == Pow10(digits)
      n == (2 * scale * r.n + r.d) \div (2 * r.d)
      frac == n % scale
  IN ToString(n \div scale) \o "."
       \o (IF digits = 2 /\ frac < 10 THEN "0" ELSE "") \o ToString(frac)

\* encodeURIComponent over the characters the model's strings are made of.
RECURSIVE EncodeURIComponent(_)
EncodeURIComponent(s) ==
  IF Len(s) = 0 THEN ""
  ELSE (CASE Char(s, 1) = " " -> "%20"
          [] Char(s, 1) = "&" -> "%26"
          [] Char(s, 1) = "=" -> "%3D"
          [] OTHER -> Char(s, 1))
       \o EncodeURIComponent(SubSeq(s, 2, Len(s)))

RECURSIVE JoinAmp(_)
\* query.join('&')
JoinAmp(q) ==
  IF Len(q) = 0 THEN ""
  ELSE IF Len(q) = 1 THEN q[1] ELSE q[1] \o "&" \o JoinAmp(Tail(q))

\* The push guarded by `params.f !== undefined`.
QueryPart_IfDefined(name, x) ==
  IF x # Undefined THEN <<name \o "=" \o EncodeURIComponent(x.v)>> ELSE <<>>

\* `if (params.f) query.push(`name=${encodeURIComponent(params.f)}`)`
QueryPart(name, x) ==
  IF Truthy(x) THEN <<name \o "=" \o EncodeURIComponent(x.v)>> ELSE <<>>

\* part_003: getDeliveryStats, up to `await fetch(url, ...)`.
getDeliveryStats(args) ==
  LET query == QueryPart("fromdate", Get(args, "fromDate"))
                 \o QueryPart("todate", Get(args, "toDate"))
                 \o QueryPart("tag", Get(args, "tag"))
                 \o QueryPart("messagestream", Get(args, "messageStream"))
  IN Await("fetch",
           [url |-> "https://api.postmarkapp.com/stats/outbound"
                      \o (IF Len(query) # 0 THEN "?" \o JoinAmp(query) ELSE ""),
            method |-> "GET",
            headers |-> [Accept |-> "application/json",
                         XPostmarkServerToken |-> serverToken]])

\* src/postmark-mcp-server.js: getDeliveryStats, up to `await fetch(...)`.
getDeliveryStats_legacy(args) ==
  Await("fetch",
        [url |-> "https://api.postmarkapp.com/deliverystats",
         method |-> "GET",
         headers |-> [Accept |-> "application/json",
                      XPostmarkServerToken |-> serverToken]])

\* part_003: `tracked > 0 ? Math.min((uniqueOpens / tracked) * 100, 100).toFixed(1) : '0.0'`
openRate(data) ==
  LET tracked == JsOr(Prop(data, "Tracked"), Num(0))
      uniqueOpens == JsOr(Prop(data, "UniqueOpens"), Num(0))
  IN IF tracked.v > 0
     THEN ToFixed(MathMin(Ratio(uniqueOpens.v * 100, tracked.v), Ratio(100, 1)), 1)
     ELSE "0.0"

\* Number.isFinite
IsFinite(x) == x.t = "number"

safeTotalTrackedLinks(data) ==
  LET totalTrackedLinks == JsOr(Prop(data, "TotalTrackedLinksSent"), Num(0))
  IN IF IsFinite(totalTrackedLinks) THEN totalTrackedLinks ELSE Num(0)

safeUniqueLinksClicked(data) ==
  LET uniqueLinksClicked == JsOr(Prop(data, "UniqueLinksClicked"), Num(0))
  IN IF IsFinite(uniqueLinksClicked) THEN uniqueLinksClicked ELSE Num(0)

safeClickRate(data) ==
  IF safeTotalTrackedLinks(data).v > 0
  THEN ToFixed(MathMin(Ratio(safeUniqueLinksClicked(data).v * 100,
                             safeTotalTrackedLinks(data).v),
                       Ratio(100, 1)), 1)
  ELSE "0.0"

\* part_003: the summary returned once response.json() has resolved.
getDeliveryStatsResult(data) ==
  LET sent == JsOr(Prop(data, "Sent"), Num(0))
      tracked == JsOr(Prop(data, "Tracked"), Num(0))
  IN Returned(<<TextSegment(
       "You sent " \o TemplateText(sent) \o " emails in the selected period.\n"
       \o "Out of " \o TemplateText(tracked) \o " emails with open tracking, "
       \o openRate(data) \o "% were opened.\n"
       \o "Out of " \o TemplateText(safeTotalTrackedLinks(data))
       \o " tracked links, " \o TemplateText(safeUniqueLinksClicked(data))
       \o " unique links were clicked (" \o safeClickRate(data) \o "%).")>>)

\* a + b of two values read from the response
JsAdd(a, b) == IF a.t = "number" /\ b.t = "number" THEN Num(a.v + b.v) ELSE NaN

\* src/postmark-mcp-server.js: `x && sent ? (x / sent) * 100 : null`, then
\* `${rate ? rate.toFixed(2) : 'N/A'}`
rateText_legacy(x, sent) ==
  IF Truthy(x) /\ Truthy(sent) /\ x.v * 100 # 0
  THEN ToFixed(Ratio(x.v * 100, sent.v), 2)
  ELSE "N/A"

sent_legacy(stats) ==
  JsAdd(JsAdd(Prop(stats, "InactiveMails"), Prop(stats, "BouncedMails")),
        Prop(stats, "DeliveredMails"))

\* src/postmark-mcp-server.js: the three segments returned by getDeliveryStats.
getDeliveryStatsResult_legacy(stats) ==
  Returned(<<
    TextSegment("Open Rate (last 30 days): "
                \o rateText_legacy(Prop(stats, "Opens"), sent_legacy(stats)) \o "%"),
    TextSegment("Bounce Rate (last 30 days): "
                \o rateText_legacy(Prop(stats, "BouncedMails"), sent_legacy(stats))
                \o "%"),
    TextSegment("Raw stats: " \o JsonStringify(stats))>>)

\* The rates a summary reports, each with the two counts it is the ratio of.
ReportedRates(b, data) ==
  IF b = "legacy"
  THEN <<[rate |-> rateText_legacy(Prop(data, "Opens"), sent_legacy(data)),
          num |-> Prop(data, "Opens"), of |-> sent_legacy(data)],
         [rate |-> rateText_legacy(Prop(data, "BouncedMails"), sent_legacy(data)),
          num |-> Prop(data, "BouncedMails"), of |-> sent_legacy(data)]>>
  ELSE <<[rate |-> openRate(data),
          num |-> JsOr(Prop(data, "UniqueOpens"), Num(0)),
          of |-> JsOr(Prop(data, "Tracked"), Num(0))],
         [rate |-> safeClickRate(data),
          num |-> safeUniqueLinksClicked(data),
          of |-> safeTotalTrackedLinks(data)]>>

\* src/postmark-mcp-server.js: `if (!response.ok) throw new Error(...)`
statusError_legacy(response) ==
  "Failed to fetch delivery stats: " \o ToString(response.status) \o " "
    \o response.statusText

(***************************************************************************)
(* The tools each variant registers with server.tool(name, shape, handler) *)
(***************************************************************************)
ToolNames_legacy ==
  {"sendEmail", "sendEmailBatch", "sendEmailWithTemplate", "createTemplate",
   "updateTemplate", "listTemplates", "getTemplate", "getDeliveryStats",
   "getOutboundMessages", "createDomain", "verifyDomainDKIM",
   "verifyDomainReturnPath"}

ToolNames_full ==
  {"sendEmail", "sendEmailBatch", "sendEmailWithTemplate", "createTemplate",
   "updateTemplate", "listTemplates", "getTemplate", "getDeliveryStats",
   "getOutboundMessages", "createDomain", "verifyDomainDKIM",
   "verifyDomainReturnPath"}

ToolNames_trycatch ==
  {"sendEmail", "sendEmailWithTemplate", "listTemplates", "getDeliveryStats",
   "getOutboundMessages"}

ToolNames(b) ==
  CASE b = "legacy" -> ToolNames_legacy
    [] b = "full" -> ToolNames_full
    [] b = "trycatch" -> ToolNames_trycatch

\* The shape given to server.tool for a registered name.
Schema(b, name) ==
  CASE name = "sendEmail" ->
         IF b = "legacy" THEN sendEmailSchema_legacy ELSE sendEmailSchema
    [] name = "sendEmailBatch" ->
         IF b = "legacy" THEN sendEmailBatchSchema_legacy ELSE sendEmailBatchSchema
    [] name = "sendEmailWithTemplate" ->
         IF b = "legacy" THEN sendEmailWithTemplateSchema_legacy
         ELSE sendEmailWithTemplateSchema
    [] name = "createTemplate" -> createTemplateSchema
    [] name = "updateTemplate" -> updateTemplateSchema
    [] name = "listTemplates" -> listTemplatesSchema
    [] name = "getTemplate" -> getTemplateSchema
    [] name = "getDeliveryStats" ->
         IF b = "legacy" THEN getDeliveryStatsSchema_legacy
         ELSE IF b = "full" THEN getDeliveryStatsSchema
         ELSE getDeliveryStatsSchema_trycatch
    [] name = "getOutboundMessages" -> getOutboundMessagesSchema
    [] name = "createDomain" -> createDomainSchema
    [] name = "verifyDomainDKIM" -> verifyDomainSchema
    [] name = "verifyDomainReturnPath" -> verifyDomainSchema

\* The handler given to server.tool, run up to its first await.
Start(b, name, args) ==
  CASE name = "sendEmail" ->
         IF b = "legacy" THEN sendEmail_legacy(args) ELSE sendEmail(args)
    [] name = "sendEmailBatch" ->
         IF b = "legacy" THEN sendEmailBatch_legacy(args) ELSE sendEmailBatch(args)
    [] name = "sendEmailWithTemplate" ->
         IF b = "legacy" THEN sendEmailWithTemplate_legacy(args)
         ELSE sendEmailWithTemplate(args)
    [] name = "createTemplate" -> createTemplate(args)
    [] name = "updateTemplate" -> updateTemplate(args)
    [] name = "listTemplates" -> listTemplates(args)
    [] name = "getTemplate" -> getTemplate(args)
    [] name = "getDeliveryStats" ->
         IF b = "legacy" THEN getDeliveryStats_legacy(args) ELSE getDeliveryStats(args)
    [] name = "getOutboundMessages" -> getOutboundMessages(args)
    [] name = "createDomain" -> createDomain(args)
    [] name = "verifyDomainDKIM" -> verifyDomainDKIM(args)
    [] name = "verifyDomainReturnPath" -> verifyDomainReturnPath(args)

\* What becomes of an error raised inside the handler: the catch block of the
\* handlers that have one, else the handler's promise rejects with it.
Caught(b, name, error) ==
  CASE b = "trycatch" /\ name = "sendEmail" ->
         Returned(<<TextSegment("Failed to send email: "
                                \o MessageOrUnknown(error.message))>>)
    [] b = "trycatch" /\ name = "sendEmailWithTemplate" ->
         Returned(<<TextSegment("Failed to send template email: "
                                \o MessageOrUnknown(error.message))>>)
    [] b # "legacy" /\ name = "getDeliveryStats" ->
         Returned(<<TextSegment("Error fetching delivery stats: "
                                \o ErrorToString(error))>>)
    [] OTHER -> Threw(error)

\* getDeliveryStats after fetch has resolved with `response`.
StatsFinish(b, response) ==
  IF b = "legacy" /\ ~response.ok
  THEN Caught(b, "getDeliveryStats",
              Error("Error", statusError_legacy(response)))
  ELSE IF ~response.json.ok
  THEN Caught(b, "getDeliveryStats", response.json.error)
  ELSE IF b = "legacy"
  THEN getDeliveryStatsResult_legacy(response.json.value)
  ELSE getDeliveryStatsResult(response.json.value)

\* The rest of the handler once its upstream call has resolved with `value`.
Finish(b, name, value) ==
  CASE name = "sendEmail" -> sendEmailResult(value)
    [] name = "sendEmailBatch" -> sendEmailBatchResult(value)
    [] name = "sendEmailWithTemplate" -> sendEmailWithTemplateResult(value)
    [] name = "createTemplate" -> createTemplateResult(value)
    [] name = "updateTemplate" -> updateTemplateResult(value)
    [] name = "listTemplates" -> listTemplatesResult(value)
    [] name = "getTemplate" -> getTemplateResult(value)
    [] name = "getDeliveryStats" -> StatsFinish(b, value)
    [] name = "getOutboundMessages" -> getOutboundMessagesResult(value)
    [] name = "createDomain" -> createDomainResult(value)
    [] name = "verifyDomainDKIM" -> verifyDomainDKIMResult(value)
    [] name = "verifyDomainReturnPath" -> verifyDomainReturnPathResult(value)

(***************************************************************************)
(* Inputs: the environment, the tool calls a client sends, and what the    *)
(* provider answers.                                                       *)
(***************************************************************************)
MaxBatch == 2

MaxCount == 3

Builds == {"legacy", "full", "trycatch"}

Environments ==
  [POSTMARK_SERVER_TOKEN : {Undefined, Str(""), Str("pm-token")},
   DEFAULT_SENDER_EMAIL : {Undefined, Str(""), Str("info@x.com")},
   DEFAULT_MESSAGE_STREAM : {Undefined, Str(""), Str("outbound")}]

Senders == {Undefined, Str(""), Str("me@x.com")}

Streams == {Undefined, Str(""), Str("broadcast")}

Tags == {Undefined, Str(""), Str(" "), Str(" t1 ")}

BatchMessages ==
  {Obj(m) : m \in [to : {Str("a@b.com"), Str("nope")},
                   subject : {Str("S")},
                   textBody : {Str("B")},
                   from : Senders,
                   messageStream : {Undefined, Str("broadcast")},
                   trackOpens : {Undefined, Bool(TRUE)},
                   trackLinks : {Str("HtmlAndText")}]}

SeqsUpTo(S, n) == UNION {[1..k -> S] : k \in 0..n}

NoArgs == <<>>

\* The argument objects a client sends with a call of `name`.
ToolArgs(name) ==
  CASE name = "sendEmail" ->
         [to : {Str("a@b.com"), Str("nope")},
          subject : {Str("S"), Num(5)},
          textBody : {Undefined, Str("B")},
          from : Senders,
          messageStream : Streams,
          tag : Tags,
          trackOpens : {Undefined, Bool(TRUE)},
          trackLinks : {Undefined, Str("HtmlAndText")}]
    [] name = "sendEmailBatch" ->
         [messages : {Undefined} \cup {Arr(q) : q \in SeqsUpTo(BatchMessages, MaxBatch)}]
    [] name = "sendEmailWithTemplate" ->
         [to : {Str("a@b.com"), Str("nope")},
          templateId : {Undefined, Num(0), Num(5)},
          templateAlias : {Undefined, Str(""), Str("welcome")},
          templateModel : {Undefined, Obj(<<>>), Obj([name |-> Str("J")])},
          from : Senders,
          messageStream : Streams,
          tag : Tags,
          trackOpens : {Undefined, Bool(TRUE)},
          trackLinks : {Undefined, Str("HtmlAndText")}]
    [] name = "createTemplate" ->
         [name : {Undefined, Str("Welcome")},
          subject : {Str("S")},
          htmlBody : {Str("<p>")},
          textBody : {Undefined, Str(""), Str("B")},
          alias : {Undefined, Str("welcome")}]
    [] name = "updateTemplate" ->
         [templateId : {Undefined, Num(5)},
          name : {Undefined, Str("Welcome")},
          subject : {Undefined, Str("S")},
          htmlBody : {Undefined, Str("<p>")},
          textBody : {Undefined, Str(""), Str("B")},
          alias : {Undefined, Str("welcome")}]
    [] name = "getTemplate" -> [templateId : {Undefined, Num(5), Str("5")}]
    [] name = "getDeliveryStats" ->
         [tag : {Undefined, Str(""), Str("t 1")},
          fromDate : {Undefined, Str("2025-05-01"), Str("May 1")},
          toDate : {Undefined, Str("2025-05-15"), Str("15/05")},
          messageStream : {Undefined, Str("broadcast")}]
    [] name = "getOutboundMessages" ->
         [count : {Undefined, Num(0), Num(5), Num(10), Str("5")},
          offset : {Undefined, Num(0), Num(20)}]
    [] name = "createDomain" ->
         [name : {Undefined, Str("example.com")},
          returnPathDomain : {Undefined, Str("pm.example.com")}]
    [] name \in {"verifyDomainDKIM", "verifyDomainReturnPath"} ->
         [domainId : {Undefined, Num(7)}]
    [] OTHER -> {NoArgs}

\* Names a client may ask for: every tool of the catalogue and one that no
\* variant registers.
RequestedNames == ToolNames_legacy \cup {"deleteTemplate"}

MessageIDs == {"m1", "m2"}

Counts == 0..MaxCount

\* Message counts large enough for a rate above 100%.
OpenCounts == Counts \cup {50, 60}

\* The fields of a /stats/outbound answer, and of a /deliverystats answer; an
\* answer may also carry none of them.
StatsBodies(b) ==
  IF b = "legacy"
  THEN {PObj(<<<<"InactiveMails", Num(0)>>, <<"BouncedMails", Num(bm)>>,
               <<"DeliveredMails", Num(dm)>>, <<"Opens", Num(o)>>>>) :
          bm \in Counts, dm \in OpenCounts, o \in OpenCounts}
       \cup {PObj(<<>>)}
  ELSE {PObj(<<<<"Sent", Num(st)>>, <<"Tracked", Num(tr)>>,
               <<"UniqueOpens", Num(uo)>>, <<"TotalTrackedLinksSent", Num(tl)>>,
               <<"UniqueLinksClicked", Num(lc)>>>>) :
          st \in {0, MaxCount}, tr \in OpenCounts, uo \in OpenCounts,
          tl \in Counts, lc \in Counts}
       \cup {PObj(<<>>)}

ErrorBody ==
  PObj(<<<<"ErrorCode", Num(10)>>, <<"Message", Str("Bad or missing API token.")>>>>)

HttpResponse(ok, status, statusText, json) ==
  [ok |-> ok, status |-> status, statusText |-> statusText, json |-> json]

\* What fetch resolves with: a 200 with statistics, a 200 whose body is not
\* JSON, a 401 with the provider's error body.
FetchResponses(b) ==
  {HttpResponse(TRUE, 200, "OK", [ok |-> TRUE, value |-> body]) :
     body \in StatsBodies(b)}
  \cup {HttpResponse(TRUE, 200, "OK",
                     [ok |-> FALSE,
                      error |-> Error("SyntaxError", "Unexpected token <")]),
        HttpResponse(FALSE, 401, "Unauthorized", [ok |-> TRUE, value |-> ErrorBody])}

\* What an SDK call of `op` resolves with.
SdkResults(op) ==
  CASE op \in {"sendEmail", "sendEmailWithTemplate"} ->
         {PObj(<<<<"MessageID", Str(m)>>>>) : m \in MessageIDs}
    [] op = "sendEmailBatch" ->
         {Arr(<<>>), Arr(<<PObj(<<<<"ErrorCode", Num(0)>>, <<"MessageID", Str("m1")>>>>)>>)}
    [] op \in {"createTemplate", "editTemplate"} ->
         {PObj(<<<<"TemplateId", Num(5)>>>>)}
    [] op = "getTemplates" ->
         {PObj(<<<<"TotalCount", Num(0)>>, <<"Templates", Arr(<<>>)>>>>),
          PObj(<<<<"TotalCount", Num(1)>>,
                 <<"Templates", Arr(<<PObj(<<<<"TemplateId", Num(5)>>>>)>>)>>>>)}
    [] op = "getTemplate" ->
         {PObj(<<<<"TemplateId", Num(5)>>, <<"Name", Str("Welcome")>>>>)}
    [] op = "getOutboundMessages" ->
         {PObj(<<<<"TotalCount", Num(0)>>, <<"Messages", Arr(<<>>)>>>>),
          PObj(<<<<"TotalCount", Num(1)>>,
                 <<"Messages", Arr(<<PObj(<<<<"MessageID", Str("m1")>>>>)>>)>>>>)}
    [] op = "createDomain" -> {PObj(<<<<"ID", Num(7)>>>>)}
    [] op \in {"verifyDomainDKIM", "verifyDomainReturnPath"} ->
         {PObj(<<<<"ID", Num(7)>>, <<"DKIMVerified", Bool(TRUE)>>>>)}

UpstreamValues(b, op) == IF op = "fetch" THEN FetchResponses(b) ELSE SdkResults(op)

\* What an upstream call rejects with.
UpstreamErrors == {Error("Error", "Request failed"), Error("Error", "")}

(***************************************************************************)
(* The state machine                                                       *)
(*                                                                         *)
(* pc is the position of the script's top-level code.  calls holds, per    *)
(* request slot of the transport, the tool call being handled: its name    *)
(* and arguments, the upstream requests its handler has issued, what the   *)
(* upstream call settled with, and the outcome.  An outcome is             *)
(*   [kind |-> "unknown"]   no tool of that name is registered             *)
(*   [kind |-> "invalid"]   the arguments failed the tool's schema         *)
(*   [kind |-> "returned"]  the handler returned a result                  *)
(*   [kind |-> "threw"]     the handler's promise rejected                 *)
(***************************************************************************)
NoSettle == [s |-> "none"]

NoOutcome == [kind |-> "none"]

IdleCall ==
  [status |-> "idle", name |-> "", args |-> NoArgs, reqs |-> <<>>,
   settle |-> NoSettle, out |-> NoOutcome, earlier |-> {}]

\* One session, whose calls are handled one after the other.
SessionCalls == {1}

\* A transport that pipelines: two calls are handled at once.
PipelinedCalls == {1, 2}

Pipelined == Cardinality(DOMAIN calls) > 1

\* The calls and upstream answers considered when calls are pipelined: the
\* tools every variant registers and one unknown name, a few arguments each.
PipelinedNames ==
  {"sendEmail", "sendEmailWithTemplate", "getOutboundMessages",
   "getDeliveryStats", "deleteTemplate"}

PipelinedArgs(name) ==
  CASE name = "sendEmail" ->
         [to : {Str("a@b.com"), Str("nope")},
          subject : {Str("S")},
          textBody : {Str("B")},
          from : {Undefined, Str("me@x.com")},
          messageStream : {Undefined},
          tag : {Undefined},
          trackOpens : {Bool(TRUE)},
          trackLinks : {Str("HtmlAndText")}]
    [] name = "sendEmailWithTemplate" ->
         [to : {Str("a@b.com")},
          templateId : {Num(5)},
          templateAlias : {Undefined},
          templateModel : {Obj([name |-> Str("J")])},
          from : {Undefined},
          messageStream : {Undefined},
          tag : {Undefined},
          trackOpens : {Bool(TRUE)},
          trackLinks : {Str("HtmlAndText")}]
    [] name = "getOutboundMessages" -> [count : {Undefined}, offset : {Num(20)}]
    [] name = "getDeliveryStats" ->
         [tag : {Undefined}, fromDate : {Str("2025-05-01")}, toDate : {Undefined},
          messageStream : {Undefined}]
    [] OTHER -> {NoArgs}

PipelinedValues(b, op) ==
  CASE op = "fetch" ->
         {r \in FetchResponses(b) : r.json.ok /\ r.json.value \in {PObj(<<>>), ErrorBody}}
    [] op = "getOutboundMessages" ->
         {PObj(<<<<"TotalCount", Num(0)>>, <<"Messages", Arr(<<>>)>>>>)}
    [] OTHER -> SdkResults(op)

PipelinedErrors == {Error("Error", "Request failed")}

CallNames == IF Pipelined THEN PipelinedNames ELSE RequestedNames

CallArgs(name) == IF Pipelined THEN PipelinedArgs(name) ELSE ToolArgs(name)

Answers(b, op) == IF Pipelined THEN PipelinedValues(b, op) ELSE UpstreamValues(b, op)

Failures == IF Pipelined THEN PipelinedErrors ELSE UpstreamErrors

\* The calls whose upstream request is outstanding: a request issued now comes
\* after theirs.  A call keeps them in `earlier`.
Outstanding == {c \in DOMAIN calls : calls[c].status \in {"awaiting", "hung"}}

\* The requests issued before that of the awaiting call c and still outstanding:
\* an answer to c now overtakes them.
Overtaken(c) ==
  {d \in calls[c].earlier : d \in Outstanding /\ c \notin calls[d].earlier}

Init ==
  /\ build \in Builds
  /\ env \in Environments
  /\ pc = "start"
  /\ registry = {}
  /\ connected = FALSE
  /\ calls = [c \in SessionCalls |-> IdleCall]

InitPipelined ==
  /\ build \in Builds
  /\ env \in Environments
  /\ pc = "start"
  /\ registry = {}
  /\ connected = FALSE
  /\ calls = [c \in PipelinedCalls |-> IdleCall]

\* The configuration checks: a missing or empty value throws at module top
\* level, which ends the process.
CheckConfig ==
  /\ pc = "start"
  /\ pc' = IF ConfigPresent THEN "configured" ELSE "crashed"
  /\ UNCHANGED <<build, env, registry, connected, calls>>

\* new McpServer(...) and the server.tool(...) calls.
RegisterTools ==
  /\ pc = "configured"
  /\ registry' = ToolNames(build)
  /\ pc' = "registered"
  /\ UNCHANGED <<build, env, connected, calls>>

\* server.connect(transport) resolves.
Connect ==
  /\ pc = "registered"
  /\ connected' = TRUE
  /\ pc' = "serving"
  /\ UNCHANGED <<build, env, registry, calls>>

\* server.connect(transport) rejects: process.exit(1).
ConnectFailed ==
  /\ pc = "registered"
  /\ pc' = "exited"
  /\ UNCHANGED <<build, env, registry, connected, calls>>

Accepting(c) == pc = "serving" /\ connected /\ calls[c].status = "idle"

\* An unregistered name answered with an empty success instead of an error.
DispatchUnknown_EmptySuccess ==
  \E c \in DOMAIN calls :
    /\ Accepting(c)
    /\ \E name \in CallNames \ registry :
         \E args \in CallArgs(name) :
           calls' = [calls EXCEPT ![c] =
             [IdleCall EXCEPT !.status = "done", !.name = name, !.args = args,
                              !.out = Returned(<<>>)]]
    /\ UNCHANGED <<build, env, pc, registry, connected>>

\* A call of a name that is not registered.
DispatchUnknown ==
  \E c \in DOMAIN calls :
    /\ Accepting(c)
    /\ \E name \in CallNames \ registry :
         \E args \in CallArgs(name) :
           calls' = [calls EXCEPT ![c] =
             [IdleCall EXCEPT !.status = "done", !.name = name, !.args = args,
                              !.out = [kind |-> "unknown"]]]
    /\ UNCHANGED <<build, env, pc, registry, connected>>

\* A call whose arguments fail the tool's schema.
DispatchInvalid ==
  \E c \in DOMAIN calls :
    /\ Accepting(c)
    /\ \E name \in CallNames \cap registry :
         \E args \in CallArgs(name) :
           /\ InvalidFields(Schema(build, name), args) # {}
           /\ calls' = [calls EXCEPT ![c] =
                [IdleCall EXCEPT !.status = "done", !.name = name, !.args = args,
                                 !.out = [kind |-> "invalid",
                                          fields |-> InvalidFields(
                                                       Schema(build, name), args)]]]
    /\ UNCHANGED <<build, env, pc, registry, connected>>

\* A valid call: the handler runs until it awaits its upstream call, or throws.
Invoke ==
  \E c \in DOMAIN calls :
    /\ Accepting(c)
    /\ \E name \in CallNames \cap registry :
         \E args \in CallArgs(name) :
           /\ InvalidFields(Schema(build, name), args) = {}
           /\ LET step == Start(build, name, Parsed(Schema(build, name), args))
              IN calls' = [calls EXCEPT ![c] =
                   IF step.k = "await"
                   THEN [IdleCall EXCEPT !.status = "awaiting", !.name = name,
                                         !.args = args, !.earlier = Outstanding,
                                         !.reqs = <<[op |-> step.op,
                                                     req |-> step.req]>>]
                   ELSE [IdleCall EXCEPT !.status = "done", !.name = name,
                                         !.args = args,
                                         !.out = Caught(build, name, step.error)]]
    /\ UNCHANGED <<build, env, pc, registry, connected>>

\* Handlers that keep the result they build in one place shared by all calls.
Resolve_SharedResult ==
  \E c \in DOMAIN calls :
    /\ calls[c].status = "awaiting"
    /\ \E value \in Answers(build, calls[c].reqs[1].op) :
         calls' = [d \in DOMAIN calls |->
                     IF d = c
                     THEN [calls[c] EXCEPT !.status = "done",
                                           !.settle = [s |-> "resolved", value |-> value],
                                           !.out = Finish(build, calls[c].name, value)]
                     ELSE IF calls[d].out.kind = "returned"
                          THEN [calls[d] EXCEPT !.out = Finish(build, calls[c].name, value)]
                          ELSE calls[d]]
    /\ UNCHANGED <<build, env, pc, registry, connected>>

\* Answers handed to the handlers in the order of their requests: the answer to
\* the request of c resumes the handler that has waited longest.
Resolve_InRequestOrder ==
  \E c \in DOMAIN calls :
    /\ calls[c].status = "awaiting"
    /\ \E value \in Answers(build, calls[c].reqs[1].op) :
         LET waiting == {d \in Overtaken(c) : calls[d].status = "awaiting"}
             e == IF waiting = {} THEN c ELSE CHOOSE d \in waiting : TRUE
         IN calls' = [calls EXCEPT ![c].settle = [s |-> "resolved", value |-> value],
                                   ![e].status = "done",
                                   ![e].out = Finish(build, calls[e].name, value)]
    /\ UNCHANGED <<build, env, pc, registry, connected>>

\* The upstream call resolves and the handler runs to its end.
ResolveCall(c) ==
  /\ calls[c].status = "awaiting"
  /\ \E value \in Answers(build, calls[c].reqs[1].op) :
       calls' = [calls EXCEPT ![c].status = "done",
                              ![c].earlier = Overtaken(c),
                              ![c].settle = [s |-> "resolved", value |-> value],
                              ![c].out = Finish(build, calls[c].name, value)]
  /\ UNCHANGED <<build, env, pc, registry, connected>>

\* The upstream call of some slot resolves.
Resolve == \E c \in DOMAIN calls : ResolveCall(c)

\* A handler that repeats its upstream call once after a rejection.
Reject_RetryOnce ==
  \E c \in DOMAIN calls :
    /\ calls[c].status = "awaiting"
    /\ \E error \in Failures :
         calls' = IF Len(calls[c].reqs) < 2
                  THEN [calls EXCEPT ![c].reqs = Append(@, calls[c].reqs[1])]
                  ELSE [calls EXCEPT ![c].status = "done",
                                     ![c].settle = [s |-> "rejected", error |-> error],
                                     ![c].out = Caught(build, calls[c].name, error)]
    /\ UNCHANGED <<build, env, pc, registry, connected>>

\* A handler that gives up its await after a while and reports a failure.
Reject_AfterTimeout ==
  \E c \in DOMAIN calls :
    /\ calls[c].status \in {"awaiting", "hung"}
    /\ \E error \in Failures :
         calls' = [calls EXCEPT ![c].status = "done",
                                ![c].settle = [s |-> "rejected", error |-> error],
                                ![c].out = Caught(build, calls[c].name, error)]
    /\ UNCHANGED <<build, env, pc, registry, connected>>

\* The upstream call rejects.
RejectCall(c) ==
  /\ calls[c].status = "awaiting"
  /\ \E error \in Failures :
       calls' = [calls EXCEPT ![c].status = "done",
                              ![c].settle = [s |-> "rejected", error |-> error],
                              ![c].out = Caught(build, calls[c].name, error)]
  /\ UNCHANGED <<build, env, pc, registry, connected>>

\* The upstream call of some slot rejects.
Reject == \E c \in DOMAIN calls : RejectCall(c)

\* The upstream call never completes: the handler stays suspended at its await.
HangCall(c) ==
  /\ calls[c].status = "awaiting"
  /\ calls' = [calls EXCEPT ![c].status = "hung"]
  /\ UNCHANGED <<build, env, pc, registry, connected>>

\* The upstream call of some slot never completes.
Hang == \E c \in DOMAIN calls : HangCall(c)

\* The outcome goes back to the client and the slot is free again.
Respond ==
  \E c \in DOMAIN calls :
    /\ calls[c].status = "done"
    /\ calls' = [calls EXCEPT ![c] = IdleCall]
    /\ UNCHANGED <<build, env, pc, registry, connected>>

Next ==
  \/ CheckConfig
  \/ RegisterTools
  \/ Connect
  \/ ConnectFailed
  \/ DispatchUnknown
  \/ DispatchInvalid
  \/ Invoke
  \/ Resolve
  \/ Reject
  \/ Hang
  \/ Respond

Spec == Init /\ [][Next]_vars

\* The same script behind a transport that pipelines calls.
PipelinedSpec == InitPipelined /\ [][Next]_vars

\* The upstream call of slot c completes, or turns out never to complete.
Completion(c) == HangCall(c) \/ RejectCall(c) \/ ResolveCall(c)

\* Each upstream call in flight gets its turn.
FairPipelinedSpec ==
  InitPipelined /\ [][Next]_vars /\ \A c \in PipelinedCalls : WF_vars(Completion(c))

(***************************************************************************)
(* Properties                                                              *)
(***************************************************************************)
Supplied(args, f) == Get(args, f) # Undefined

\* The caller supplied the fields of S and no other.
SuppliedExactly(args, S) == \A f \in DOMAIN args : Supplied(args, f) <=> f \in S

NonEmptyString(x) == x.t = "string" /\ x.v # ""

Dispatched(c) == calls[c].status # "idle"

\* The call of slot c is a call of tool `name` whose handler reached its upstream call.
Reached(c, name) == calls[c].name = name /\ calls[c].reqs # <<>>

Request(c) == calls[c].reqs[1].req

\* C1: a missing or empty setting stops the script before any tool is
\* registered and before the transport is connected, so whenever a tool call is
\* being handled the credential, the default sender and the default stream are
\* all non-empty strings.
C1_StartupGate ==
  /\ (\E k \in DOMAIN env : ~NonEmptyString(env[k]))
       => /\ registry = {}
          /\ ~connected
          /\ pc \in {"start", "crashed"}
          /\ \A c \in DOMAIN calls : ~Dispatched(c)
  /\ \A c \in DOMAIN calls :
       Dispatched(c) => \A k \in DOMAIN env : NonEmptyString(env[k])

\* An empty default stream, the other two settings present: the script has stopped.
C1_Witness ==
  /\ pc = "crashed"
  /\ NonEmptyString(env.POSTMARK_SERVER_TOKEN)
  /\ NonEmptyString(env.DEFAULT_SENDER_EMAIL)
  /\ env.DEFAULT_MESSAGE_STREAM = Str("")

\* C2 as stated: the request of every valid sendEmail call has the caller's
\* `from` as From whenever `from` was supplied, the default sender otherwise, and
\* likewise messageStream.
C2_SuppliedOrDefault ==
  \A c \in DOMAIN calls :
    Reached(c, "sendEmail") =>
      /\ Request(c).From = IF Supplied(calls[c].args, "from")
                           THEN calls[c].args.from ELSE defaultSender
      /\ Request(c).MessageStream = IF Supplied(calls[c].args, "messageStream")
                                    THEN calls[c].args.messageStream
                                    ELSE defaultMessageStream

\* C2 amended: the request of every valid sendEmail call has the caller's `from`
\* as From when it was supplied and is not the empty string, the default sender
\* otherwise (an empty string counts as absent), and likewise messageStream.
C2_NonEmptyOrDefault ==
  \A c \in DOMAIN calls :
    Reached(c, "sendEmail") =>
      /\ Request(c).From = IF Supplied(calls[c].args, "from")
                              /\ calls[c].args.from # Str("")
                           THEN calls[c].args.from ELSE defaultSender
      /\ Request(c).MessageStream = IF Supplied(calls[c].args, "messageStream")
                                       /\ calls[c].args.messageStream # Str("")
                                    THEN calls[c].args.messageStream
                                    ELSE defaultMessageStream

\* A sendEmail request built from an empty `from` and a caller's own stream.
C2_Witness ==
  \E c \in DOMAIN calls :
    /\ Reached(c, "sendEmail")
    /\ calls[c].args.from = Str("")
    /\ calls[c].args.messageStream = Str("broadcast")
    /\ Request(c).From = defaultSender
    /\ Request(c).MessageStream = Str("broadcast")

ValidThreeFieldSendEmail(c) ==
  /\ Dispatched(c)
  /\ calls[c].name = "sendEmail"
  /\ SuppliedExactly(calls[c].args, {"to", "subject", "textBody"})
  /\ calls[c].args.to.t = "string" /\ IsEmail(calls[c].args.to.v)
  /\ calls[c].args.subject.t = "string"
  /\ calls[c].args.textBody.t = "string"

\* C3: a sendEmail call carrying only to, subject and textBody hands the
\* provider a request of exactly From (default sender), To, Subject, TextBody and
\* MessageStream (default stream), the caller's values unchanged.
C3_FiveFieldRequest ==
  \A c \in DOMAIN calls :
    ValidThreeFieldSendEmail(c) =>
      /\ calls[c].reqs # <<>>
      /\ calls[c].reqs[1].op = "sendEmail"
      /\ Request(c) = [From |-> defaultSender,
                       To |-> calls[c].args.to,
                       Subject |-> calls[c].args.subject,
                       TextBody |-> calls[c].args.textBody,
                       MessageStream |-> defaultMessageStream]

\* C4: to, subject and textBody are the only required fields of sendEmail: a
\* call supplying exactly these, with valid values, passes validation and
\* reaches the provider's send call.
C4_ThreeFieldsSuffice ==
  \A c \in DOMAIN calls :
    ValidThreeFieldSendEmail(c) =>
      /\ calls[c].out.kind # "invalid"
      /\ calls[c].reqs # <<>>
      /\ calls[c].reqs[1].op = "sendEmail"

IdentifierError == "Either templateId or templateAlias must be provided."

\* The call was refused for its arguments: by the schema, or by the handler's
\* own identifier rule (thrown, or caught and returned as a failure text).
RejectedAsInvalid(c) ==
  /\ calls[c].status = "done"
  /\ \/ calls[c].out.kind = "invalid"
     \/ /\ calls[c].out.kind = "threw"
        /\ calls[c].out.error.message = IdentifierError
     \/ /\ calls[c].out.kind = "returned"
        /\ calls[c].out.content =
             <<TextSegment("Failed to send template email: " \o IdentifierError)>>

\* C5: a sendEmailWithTemplate call that supplies neither templateId nor
\* templateAlias is refused as an invalid argument and no provider call is made.
C5_NeitherIdentifierRejected ==
  \A c \in DOMAIN calls :
    (/\ Dispatched(c)
     /\ calls[c].name = "sendEmailWithTemplate"
     /\ ~Supplied(calls[c].args, "templateId")
     /\ ~Supplied(calls[c].args, "templateAlias"))
      => RejectedAsInvalid(c) /\ calls[c].reqs = <<>>

\* A call without identifier that passed the schema and was refused by the handler.
C5_Witness ==
  \E c \in DOMAIN calls :
    /\ calls[c].name = "sendEmailWithTemplate"
    /\ ~Supplied(calls[c].args, "templateId")
    /\ ~Supplied(calls[c].args, "templateAlias")
    /\ calls[c].out.kind = "threw"
    /\ calls[c].reqs = <<>>

\* C6 as stated: a sendEmailWithTemplate call supplying both templateId and
\* templateAlias is refused as an invalid argument, like one supplying neither.
C6_BothIdentifiersRejected ==
  \A c \in DOMAIN calls :
    (/\ Dispatched(c)
     /\ calls[c].name = "sendEmailWithTemplate"
     /\ Supplied(calls[c].args, "templateId")
     /\ Supplied(calls[c].args, "templateAlias"))
      => RejectedAsInvalid(c) /\ calls[c].reqs = <<>>

\* C6 amended: a call supplying neither identifier is refused, but a call
\* supplying both is not refused for that: when it passes the schema and its
\* templateId is not 0 it reaches the provider, with TemplateId the supplied
\* templateId and no TemplateAlias.
C6_BothIdentifiersSendTemplateId ==
  \A c \in DOMAIN calls :
    (Dispatched(c) /\ calls[c].name = "sendEmailWithTemplate") =>
      /\ (~Supplied(calls[c].args, "templateId")
          /\ ~Supplied(calls[c].args, "templateAlias"))
           => calls[c].reqs = <<>> /\ calls[c].status = "done"
      /\ (/\ Supplied(calls[c].args, "templateId")
          /\ Supplied(calls[c].args, "templateAlias")
          /\ calls[c].out.kind # "invalid"
          /\ calls[c].args.templateId # Num(0))
           => /\ calls[c].reqs # <<>>
              /\ "TemplateId" \in DOMAIN Request(c)
              /\ Request(c).TemplateId = calls[c].args.templateId
              /\ "TemplateAlias" \notin DOMAIN Request(c)

\* A request sent for a call that supplied templateId 5 and alias "welcome".
C6_Witness ==
  \E c \in DOMAIN calls :
    /\ Reached(c, "sendEmailWithTemplate")
    /\ calls[c].args.templateId = Num(5)
    /\ calls[c].args.templateAlias = Str("welcome")
    /\ Request(c).TemplateId = Num(5)
    /\ "TemplateAlias" \notin DOMAIN Request(c)
    /\ build = "full"

\* The call of slot c is a getDeliveryStats call answered with statistics.
StatsAnswered(c) ==
  /\ calls[c].name = "getDeliveryStats"
  /\ calls[c].status = "done"
  /\ calls[c].settle.s = "resolved"
  /\ calls[c].settle.value.ok
  /\ calls[c].settle.value.json.ok

StatsData(c) == calls[c].settle.value.json.value

\* The one-decimal renderings of 0.0 up to 100.0.
RateTexts == {ToString(t \div 10) \o "." \o ToString(t % 10) : t \in 0..1000}

\* C7: every rate getDeliveryStats reports is a percentage from 0 to 100; a rate
\* whose denominator is 0 is reported as "0.0", and the call returns normally.
C7_RatesWithinRange ==
  \A c \in DOMAIN calls :
    StatsAnswered(c) =>
      /\ calls[c].out.kind = "returned"
      /\ \A i \in DOMAIN ReportedRates(build, StatsData(c)) :
           LET r == ReportedRates(build, StatsData(c))[i]
           IN /\ r.rate \in RateTexts
              /\ r.of = Num(0) => r.rate = "0.0"

\* n/d as a percentage rounded to tenths, then limited to 100.0.
CappedRateText(n, d) ==
  LET tenths == (2000 * n + d) \div (2 * d)
      capped == IF tenths > 1000 THEN 1000 ELSE tenths
  IN ToString(capped \div 10) \o "." \o ToString(capped % 10)

\* C8: with a positive denominator every rate getDeliveryStats reports is
\* min(numerator / denominator * 100, 100) rendered with one decimal, so that 60
\* opens of 50 tracked give "100.0".
C8_CappedOneDecimal ==
  \A c \in DOMAIN calls :
    StatsAnswered(c) =>
      \A i \in DOMAIN ReportedRates(build, StatsData(c)) :
        LET r == ReportedRates(build, StatsData(c))[i]
        IN (r.of.t = "number" /\ r.of.v > 0 /\ r.num.t = "number")
             => r.rate = CappedRateText(r.num.v, r.of.v)

\* C9: a getOutboundMessages call asks the provider for `count` messages from
\* `offset`, with 10 in place of an omitted count and 0 in place of an omitted
\* offset, each replaced on its own: the request of a call that omits one or
\* both is the request of the call that passes 10 and 0 for them.
C9_OmittedCountOffset ==
  \A c \in DOMAIN calls :
    Reached(c, "getOutboundMessages") =>
      LET explicit == [count |-> IF Supplied(calls[c].args, "count")
                                 THEN calls[c].args.count ELSE Num(10),
                       offset |-> IF Supplied(calls[c].args, "offset")
                                  THEN calls[c].args.offset ELSE Num(0)]
      IN /\ Request(c) = explicit
         /\ calls[c].reqs[1] = [op |-> getOutboundMessages(explicit).op,
                                req |-> getOutboundMessages(explicit).req]

\* A call with offset 20 and no count: the provider is asked for 10 from 20.
C9_Witness ==
  \E c \in DOMAIN calls :
    /\ Reached(c, "getOutboundMessages")
    /\ ~Supplied(calls[c].args, "count")
    /\ calls[c].args.offset = Num(20)
    /\ Request(c) = [count |-> Num(10), offset |-> Num(20)]

\* C10: a call naming a tool that is not registered is answered with the
\* unknown-tool error: no handler runs, no upstream call is made, and nothing is
\* thrown past the dispatcher.
C10_UnknownToolRejected ==
  \A c \in DOMAIN calls :
    (Dispatched(c) /\ calls[c].name \notin registry) =>
      /\ calls[c].status = "done"
      /\ calls[c].out = [kind |-> "unknown"]
      /\ calls[c].reqs = <<>>
      /\ calls[c].settle = NoSettle

\* sendEmailBatch called on the variant that registers five tools only.
C10_Witness ==
  \E c \in DOMAIN calls :
    /\ build = "trycatch"
    /\ calls[c].name = "sendEmailBatch"
    /\ calls[c].out.kind = "unknown"

\* C11: updateTemplate called with a numeric templateId and nothing else passes
\* validation and makes one provider update call, for that identifier and with
\* no update field.
C11_UpdateWithIdentifierOnly ==
  \A c \in DOMAIN calls :
    (/\ Dispatched(c)
     /\ calls[c].name = "updateTemplate"
     /\ calls[c].name \in registry
     /\ SuppliedExactly(calls[c].args, {"templateId"})
     /\ calls[c].args.templateId.t = "number")
      => /\ calls[c].out.kind # "invalid"
         /\ Len(calls[c].reqs) = 1
         /\ calls[c].reqs[1].op = "editTemplate"
         /\ Request(c).templateId = calls[c].args.templateId
         /\ DOMAIN Request(c).fields = {}

\* The update call made for updateTemplate({templateId: 5}).
C11_Witness ==
  \E c \in DOMAIN calls :
    /\ Reached(c, "updateTemplate")
    /\ SuppliedExactly(calls[c].args, {"templateId"})
    /\ Request(c) = [templateId |-> Num(5), fields |-> <<>>]

EndsWith(s, suffix) ==
  /\ Len(s) >= Len(suffix)
  /\ SubSeq(s, Len(s) - Len(suffix) + 1, Len(s)) = suffix

\* The handler of the call of slot c raised a failure before its upstream call.
HandlerThrew(c) ==
  /\ calls[c].status = "done"
  /\ calls[c].out.kind \notin {"unknown", "invalid"}
  /\ calls[c].reqs = <<>>

\* The call of slot c failed in its handler or in its upstream call.
Failed(c) == HandlerThrew(c) \/ calls[c].settle.s = "rejected"

FailureMessage(c) ==
  IF calls[c].settle.s = "rejected" THEN calls[c].settle.error.message
  ELSE IdentifierError

\* C12: whenever the handler of a registered tool or its upstream call raises a
\* failure, the call returns a result whose text is a non-empty prefix followed
\* by the failure's message; the failure never leaves the handler uncaught.
C12_FailuresCaught ==
  \A c \in DOMAIN calls :
    Failed(c) =>
      /\ calls[c].out.kind = "returned"
      /\ Len(calls[c].out.content) >= 1
      /\ EndsWith(calls[c].out.content[1].text, FailureMessage(c))
      /\ Len(calls[c].out.content[1].text) > Len(FailureMessage(c))

NoUsableIdentifier(c) ==
  /\ calls[c].name = "sendEmailWithTemplate"
  /\ ~Truthy(calls[c].args.templateId)
  /\ ~Truthy(calls[c].args.templateAlias)

\* C14: a tool call makes at most one upstream request, and exactly one when its
\* arguments are accepted (the schema and the identifier rule of
\* sendEmailWithTemplate); sendEmailBatch makes one request that carries all its
\* messages; a call whose request failed ends with that single request made.
C14_OneUpstreamRequest ==
  \A c \in DOMAIN calls :
    /\ Len(calls[c].reqs) <= 1
    /\ (/\ Dispatched(c)
        /\ calls[c].out.kind \notin {"unknown", "invalid"}
        /\ ~NoUsableIdentifier(c))
         => Len(calls[c].reqs) = 1
    /\ (Dispatched(c) /\ calls[c].out.kind = "invalid") => calls[c].reqs = <<>>
    /\ Reached(c, "sendEmailBatch")
         => /\ calls[c].reqs[1].op = "sendEmailBatch"
            /\ Len(Request(c)) = Len(calls[c].args.messages.v)
    /\ calls[c].settle.s # "none"
         => calls[c].status = "done" /\ Len(calls[c].reqs) = 1

\* A batch of two messages whose single request was rejected.
C14_Witness ==
  \E c \in DOMAIN calls :
    /\ Reached(c, "sendEmailBatch")
    /\ Len(calls[c].args.messages.v) = 2
    /\ calls[c].settle.s = "rejected"
    /\ calls[c].status = "done"
    /\ Len(calls[c].reqs) = 1

NotAnEmail(x) == ~(x.t = "string" /\ IsEmail(x.v))

\* C15: validation comes before default substitution and before the upstream
\* call: a call with a required field missing, a field of the wrong type or a
\* `to` that is no email address fails as an invalid argument naming those
\* fields, makes no upstream request, and an omitted `from` or `messageStream`
\* is never reported (no default was validated in its place); every request
\* that is made already carries the substituted sender and stream.
C15_ValidationBeforeDefaults ==
  \A c \in DOMAIN calls :
    (Dispatched(c) /\ calls[c].name \in registry) =>
      /\ (calls[c].name = "sendEmail"
          /\ \/ NotAnEmail(calls[c].args.to)
             \/ calls[c].args.subject.t # "string"
             \/ calls[c].args.textBody.t # "string")
           => /\ calls[c].out.kind = "invalid"
              /\ "to" \in calls[c].out.fields <=> NotAnEmail(calls[c].args.to)
              /\ "subject" \in calls[c].out.fields
                   <=> calls[c].args.subject.t # "string"
              /\ "textBody" \in calls[c].out.fields
                   <=> calls[c].args.textBody.t # "string"
              /\ {"from", "messageStream"} \cap calls[c].out.fields = {}
      /\ (calls[c].name = "sendEmailBatch"
          /\ \/ calls[c].args.messages.t # "array"
             \/ \E i \in DOMAIN calls[c].args.messages.v :
                  NotAnEmail(calls[c].args.messages.v[i].v.to))
           => /\ calls[c].out.kind = "invalid"
              /\ calls[c].out.fields = {"messages"}
      /\ calls[c].out.kind = "invalid"
           => /\ calls[c].status = "done"
              /\ calls[c].reqs = <<>>
              /\ calls[c].settle = NoSettle
      /\ Reached(c, "sendEmail")
           => /\ NonEmptyString(Request(c).From)
              /\ NonEmptyString(Request(c).MessageStream)

\* A sendEmail call without `from` whose `to` is no address: refused for `to`.
C15_Witness ==
  \E c \in DOMAIN calls :
    /\ calls[c].name = "sendEmail"
    /\ calls[c].args.to = Str("nope")
    /\ calls[c].args.from = Undefined
    /\ calls[c].args.textBody = Str("B")
    /\ calls[c].args.subject = Str("S")
    /\ calls[c].args.trackOpens = Bool(TRUE)
    /\ calls[c].args.trackLinks = Str("HtmlAndText")
    /\ calls[c].out = [kind |-> "invalid", fields |-> {"to"}]
    /\ calls[c].reqs = <<>>

Contains(s, sub) ==
  \E i \in 1..(Len(s) - Len(sub) + 1) : SubSeq(s, i, i + Len(sub) - 1) = sub

\* The query parameter of each optional field of getDeliveryStats.
StatsQueryNames ==
  [fromDate |-> "fromdate", toDate |-> "todate", tag |-> "tag",
   messageStream |-> "messagestream"]

\* The call of slot c is a getDeliveryStats call whose request has just been made.
StatsRequested(c) ==
  Reached(c, "getDeliveryStats") /\ calls[c].status = "awaiting"

\* C16 as stated: each of fromdate, todate, tag and messagestream is in the
\* request of getDeliveryStats if and only if the caller supplied the
\* corresponding field; with no field supplied there is no query string.
C16_QueryIffSupplied ==
  \A c \in DOMAIN calls :
    StatsRequested(c) =>
      /\ \A f \in DOMAIN StatsQueryNames \cap DOMAIN Schema(build, "getDeliveryStats") :
           Contains(Request(c).url, StatsQueryNames[f] \o "=")
             <=> Supplied(calls[c].args, f)
      /\ (\A f \in DOMAIN StatsQueryNames : ~Supplied(calls[c].args, f))
           => ~Contains(Request(c).url, "?")

\* C16 amended: each of fromdate, todate, tag and messagestream is in the
\* request if and only if the caller supplied the corresponding field with a
\* non-empty value, and then with that value; with no such field there is no
\* query string.
C16_QueryIffNonEmpty ==
  \A c \in DOMAIN calls :
    StatsRequested(c) =>
      /\ \A f \in DOMAIN StatsQueryNames \cap DOMAIN Schema(build, "getDeliveryStats") :
           /\ Contains(Request(c).url, StatsQueryNames[f] \o "=")
                <=> NonEmptyString(calls[c].args[f])
           /\ NonEmptyString(calls[c].args[f])
                => Contains(Request(c).url,
                            StatsQueryNames[f] \o "="
                              \o EncodeURIComponent(calls[c].args[f].v))
      /\ (\A f \in DOMAIN StatsQueryNames : ~NonEmptyString(calls[c].args[f]))
           => ~Contains(Request(c).url, "?")

\* A request for a supplied fromDate and an empty tag: fromdate only.
C16_Witness ==
  \E c \in DOMAIN calls :
    /\ StatsRequested(c)
    /\ calls[c].args = [tag |-> Str(""), fromDate |-> Str("2025-05-01"),
                        toDate |-> Undefined, messageStream |-> Undefined]
    /\ Request(c).url =
         "https://api.postmarkapp.com/stats/outbound?fromdate=2025-05-01"

StartsWith(s, prefix) ==
  Len(s) >= Len(prefix) /\ SubSeq(s, 1, Len(prefix)) = prefix

\* The statistics request of slot c was answered with a non-success status.
StatsRefused(c) ==
  /\ calls[c].name = "getDeliveryStats"
  /\ calls[c].status = "done"
  /\ calls[c].settle.s = "resolved"
  /\ ~calls[c].settle.value.ok

\* The texts that open a failure result of getDeliveryStats.
StatsFailurePrefixes ==
  {"Error fetching delivery stats: ", "Failed to fetch delivery stats: "}

\* C17: when the statistics endpoint answers with a non-success status,
\* getDeliveryStats returns a text that opens with the failure prefix of the
\* operation, never a summary computed from the error body.
C17_NonSuccessReported ==
  \A c \in DOMAIN calls :
    StatsRefused(c) =>
      /\ calls[c].out.kind = "returned"
      /\ \E prefix \in StatsFailurePrefixes :
           StartsWith(calls[c].out.content[1].text, prefix)
      /\ ~StartsWith(calls[c].out.content[1].text, "You sent ")

\* The value of an optional field when it is supplied and not empty, else d.
SuppliedOr(x, d) == IF x # Undefined /\ x # Str("") THEN x ELSE d

\* C18: the batch handed to the provider has one element per message of the
\* call, in the same order; element i carries `to`, `subject` and `textBody` of
\* message i, and the `from` and `messageStream` of message i or, where message
\* i has none, the default sender and stream, whatever the other messages carry.
C18_BatchElementwise ==
  \A c \in DOMAIN calls :
    Reached(c, "sendEmailBatch") =>
      LET messages == calls[c].args.messages.v
      IN /\ Len(Request(c)) = Len(messages)
         /\ \A i \in DOMAIN messages :
              /\ Request(c)[i].To = messages[i].v.to
              /\ Request(c)[i].Subject = messages[i].v.subject
              /\ Request(c)[i].TextBody = messages[i].v.textBody
              /\ Request(c)[i].From = SuppliedOr(messages[i].v.from, defaultSender)
              /\ Request(c)[i].MessageStream =
                   SuppliedOr(messages[i].v.messageStream, defaultMessageStream)

\* Two messages, the first with its own sender and stream, the second with none.
C18_Witness ==
  \E c \in DOMAIN calls :
    /\ Reached(c, "sendEmailBatch")
    /\ Len(Request(c)) = 2
    /\ calls[c].args.messages.v[1].v.from = Str("me@x.com")
    /\ calls[c].args.messages.v[1].v.messageStream = Str("broadcast")
    /\ calls[c].args.messages.v[2].v.from = Undefined
    /\ calls[c].args.messages.v[2].v.messageStream = Undefined
    /\ Request(c)[1].From = Str("me@x.com")
    /\ Request(c)[2].From = defaultSender
    /\ Request(c)[2].MessageStream = defaultMessageStream

\* C19: a sendEmailBatch call whose `messages` is the empty sequence fails
\* validation as an invalid argument and makes no upstream batch request.
C19_EmptyBatchRejected ==
  \A c \in DOMAIN calls :
    (/\ Dispatched(c)
     /\ calls[c].name = "sendEmailBatch"
     /\ calls[c].name \in registry
     /\ calls[c].args.messages = Arr(<<>>))
      => calls[c].out.kind = "invalid" /\ calls[c].reqs = <<>>

NotADate(x) == x # Undefined /\ ~(x.t = "string" /\ IsDate(x.v))

\* C20: a getDeliveryStats call whose fromDate or toDate is supplied and is not
\* of the form YYYY-MM-DD fails validation as an invalid argument and makes no
\* statistics request.
C20_DateFormatValidated ==
  \A c \in DOMAIN calls :
    (/\ Dispatched(c)
     /\ calls[c].name = "getDeliveryStats"
     /\ {"fromDate", "toDate"} \subseteq DOMAIN Schema(build, "getDeliveryStats")
     /\ NotADate(calls[c].args.fromDate) \/ NotADate(calls[c].args.toDate))
      => calls[c].out.kind = "invalid" /\ calls[c].reqs = <<>>

\* C21: the TemplateModel of every sendEmailWithTemplate request is the
\* caller's templateModel, with all its keys and values, also those no schema
\* names.
C21_TemplateModelForwarded ==
  \A c \in DOMAIN calls :
    Reached(c, "sendEmailWithTemplate") =>
      Request(c).TemplateModel = calls[c].args.templateModel

\* A request whose model carries the key `name`, which the shape does not declare.
C21_Witness ==
  \E c \in DOMAIN calls :
    /\ Reached(c, "sendEmailWithTemplate")
    /\ calls[c].args.templateModel = Obj([name |-> Str("J")])
    /\ Request(c).TemplateModel = Obj([name |-> Str("J")])
    /\ build = "full"

UpdateFields == {"name", "subject", "htmlBody", "textBody", "alias"}

\* C22: the field set updateTemplate passes to the provider holds exactly the
\* fields among name, subject, htmlBody, textBody and alias that the caller
\* supplied, each with the caller's value; an omitted field is absent.
C22_PartialUpdate ==
  \A c \in DOMAIN calls :
    Reached(c, "updateTemplate") =>
      /\ Request(c).templateId = calls[c].args.templateId
      /\ DOMAIN Request(c).fields =
           {f \in UpdateFields : Supplied(calls[c].args, f)}
      /\ \A f \in DOMAIN Request(c).fields :
           Request(c).fields[f] = calls[c].args[f]

\* An update of subject and an empty textBody, and of nothing else.
C22_Witness ==
  \E c \in DOMAIN calls :
    /\ Reached(c, "updateTemplate")
    /\ SuppliedExactly(calls[c].args, {"templateId", "subject", "textBody"})
    /\ Request(c).fields = [subject |-> Str("S"), textBody |-> Str("")]

(***************************************************************************)
(* Calls in flight at the same time                                        *)
(***************************************************************************)
\* What the handler of slot c does when it is the only call: the request it
\* builds from its own arguments, and the outcome it makes of what its own
\* upstream call settled with.
AloneStep(c) ==
  Start(build, calls[c].name, Parsed(Schema(build, calls[c].name), calls[c].args))

AloneRequest(c) == <<[op |-> AloneStep(c).op, req |-> AloneStep(c).req]>>

AloneOutcome(c) ==
  IF calls[c].settle.s = "resolved"
  THEN Finish(build, calls[c].name, calls[c].settle.value)
  ELSE Caught(build, calls[c].name, calls[c].settle.error)

AsWhenAlone ==
  \A c \in DOMAIN calls :
    /\ calls[c].reqs # <<>> => AloneStep(c).k = "await" /\ calls[c].reqs = AloneRequest(c)
    /\ calls[c].settle.s # "none" => calls[c].out = AloneOutcome(c)

\* A step while calls are handled leaves the configuration and the registry as
\* they are, and a step of one call leaves every other call as it is.
OwnCallOnly ==
  /\ (\E c \in DOMAIN calls : Dispatched(c)) => UNCHANGED <<build, env, registry>>
  /\ \A c, d \in DOMAIN calls :
       c # d /\ calls'[c] # calls[c] => calls'[d] = calls[d]

\* C23: calls in flight at the same time do not interfere: no step of a handler
\* changes the configuration values, the registry or another call's data, and
\* under every interleaving each call's request and result are the ones the
\* handler produces from that call's own arguments and upstream answer.
C23_NoInterference == []AsWhenAlone /\ [][OwnCallOnly]_vars

\* Two sendEmail calls with different senders, both answered, each with its own
\* MessageID.
C23_Witness ==
  /\ calls[1].name = "sendEmail" /\ calls[2].name = "sendEmail"
  /\ calls[1].args.from = Undefined /\ calls[2].args.from = Str("me@x.com")
  /\ calls[1].settle = [s |-> "resolved", value |-> PObj(<<<<"MessageID", Str("m2")>>>>)]
  /\ calls[2].settle = [s |-> "resolved", value |-> PObj(<<<<"MessageID", Str("m1")>>>>)]
  /\ calls[1].status = "done" /\ calls[2].status = "done"
  /\ calls[1].out # calls[2].out

\* The call of slot c returned the success text of a send.
SendSucceeded(c) ==
  /\ calls[c].name \in {"sendEmail", "sendEmailWithTemplate"}
  /\ calls[c].out.kind = "returned"
  /\ StartsWith(calls[c].out.content[1].text, "Email sent")

\* The MessageID in the provider's answer to the request of slot c.
AnsweredMessageID(c) == Prop(calls[c].settle.value, "MessageID").v

\* C24: the success text of sendEmail and of sendEmailWithTemplate names the
\* MessageID the provider returned for that same call's request, also when
\* answers arrive in another order than the requests were issued.
C24_OwnMessageID ==
  \A c \in DOMAIN calls :
    SendSucceeded(c) =>
      /\ calls[c].settle.s = "resolved"
      /\ calls[c].out.content[1].text =
           (IF calls[c].name = "sendEmail"
            THEN "Email sent! MessageID: "
            ELSE "Email sent with template! MessageID: ") \o AnsweredMessageID(c)

\* A send answered with m2 while the send requested before it still waits, and
\* later that one answered with m1.
C24_Witness ==
  \E c, d \in DOMAIN calls :
    /\ SendSucceeded(c) /\ SendSucceeded(d)
    /\ calls[c].earlier = {d} /\ calls[d].earlier = {}
    /\ AnsweredMessageID(c) = "m2" /\ AnsweredMessageID(d) = "m1"
    /\ Contains(calls[c].out.content[1].text, "m2")
    /\ Contains(calls[d].out.content[1].text, "m1")

\* The upstream call of slot c settles and its handler returns or throws.
Settles(c) == ResolveCall(c) \/ RejectCall(c)

\* Whatever the other calls do, an awaiting call can go on as soon as its own
\* upstream call settles.
NeverBlocked ==
  \A c \in DOMAIN calls : calls[c].status = "awaiting" => ENABLED Settles(c)

\* A call whose upstream call never completes stays as it is.
StaysHung ==
  \A c \in DOMAIN calls : calls[c].status = "hung" => calls'[c] = calls[c]

\* C25: a call that passed validation and waits for its upstream call ends once
\* that call completes; there is no timeout, so a call whose upstream call never
\* completes never returns, and it keeps no other call from completing.
C25_ReturnsUnlessHung ==
  /\ \A c \in PipelinedCalls :
       (calls[c].status = "awaiting") ~> (calls[c].status \in {"done", "hung"})
  /\ [][StaysHung]_vars
  /\ []NeverBlocked

\* A call answered while the call requested before it hangs.
C25_Witness ==
  \E c, d \in DOMAIN calls :
    /\ calls[d].status = "hung"
    /\ calls[c].status = "done" /\ calls[c].settle.s = "resolved"
    /\ d \in calls[c].earlier

(***************************************************************************)
(* What the send tools put into the request                                *)
(***************************************************************************)
\* The call of slot c is a send of one message that reached the provider, by a
\* tool whose schema declares the input field f.
SingleSendWith(c, f) ==
  /\ \/ Reached(c, "sendEmail")
     \/ Reached(c, "sendEmailWithTemplate")
  /\ f \in DOMAIN Schema(build, calls[c].name)

\* x is a string with something other than blanks in it.
NonBlankString(x) == x.t = "string" /\ Trim(x.v) # ""

\* C26: the request of sendEmail and of sendEmailWithTemplate carries Tag exactly
\* when the caller supplied a tag that is non-empty after trimming, and Tag is
\* then the tag as supplied, untrimmed; with the tag omitted, empty or blank the
\* request has no Tag field.
C26_TagIffNonBlank ==
  \A c \in DOMAIN calls :
    SingleSendWith(c, "tag") =>
      /\ "Tag" \in DOMAIN Request(c) <=> NonBlankString(calls[c].args.tag)
      /\ "Tag" \in DOMAIN Request(c) => Request(c).Tag = calls[c].args.tag

\* A tag with blanks around it, sent as it is.
C26_Witness ==
  /\ Reached(1, "sendEmailWithTemplate")
  /\ calls[1].args.tag = Str(" t1 ")
  /\ "Tag" \in DOMAIN Request(1)
  /\ Request(1).Tag = Str(" t1 ")

\* The call of slot c is a send that reached the provider.
SendReached(c) ==
  \/ Reached(c, "sendEmail")
  \/ Reached(c, "sendEmailBatch")
  \/ Reached(c, "sendEmailWithTemplate")

\* The messages in the request of the send of slot c, and the caller's arguments
\* for each: the elements of a batch, or the one message of a single send.
SentMessages(c) ==
  IF calls[c].name = "sendEmailBatch" THEN Request(c) ELSE <<Request(c)>>

MessageArgs(c) ==
  IF calls[c].name = "sendEmailBatch"
  THEN [i \in DOMAIN calls[c].args.messages.v |-> calls[c].args.messages.v[i].v]
  ELSE <<calls[c].args>>

\* C27: every message of every send request (sendEmail, each element of a batch,
\* sendEmailWithTemplate) has a non-empty From and a non-empty MessageStream: an
\* empty string supplied by the caller is replaced by the default like an
\* omitted one.
C27_SenderAndStreamNonEmpty ==
  \A c \in DOMAIN calls :
    SendReached(c) =>
      \A i \in DOMAIN SentMessages(c) :
        /\ NonEmptyString(SentMessages(c)[i].From)
        /\ NonEmptyString(SentMessages(c)[i].MessageStream)
        /\ Get(MessageArgs(c)[i], "from") = Str("") =>
             SentMessages(c)[i].From = defaultSender
        /\ Get(MessageArgs(c)[i], "messageStream") = Str("") =>
             SentMessages(c)[i].MessageStream = defaultMessageStream

\* A template send with an empty sender and an empty stream, sent with the
\* defaults.
C27_Witness ==
  /\ build = "legacy"
  /\ Reached(1, "sendEmailWithTemplate")
  /\ calls[1].args.from = Str("") /\ calls[1].args.messageStream = Str("")
  /\ Request(1).From = Str("info@x.com") /\ Request(1).MessageStream = Str("outbound")

ZeroTemplateId(c) ==
  /\ Dispatched(c)
  /\ calls[c].name = "sendEmailWithTemplate"
  /\ "templateAlias" \in DOMAIN Schema(build, "sendEmailWithTemplate")
  /\ calls[c].args.templateId = Num(0)
  /\ calls[c].out.kind # "invalid"

\* The call of slot c ended with the identifier error, thrown or returned as the
\* text of a failure result.
FailedForIdentifier(c) ==
  /\ calls[c].status = "done"
  /\ \/ calls[c].out.kind = "threw" /\ calls[c].out.error.message = IdentifierError
     \/ /\ calls[c].out.kind = "returned"
        /\ EndsWith(calls[c].out.content[1].text, IdentifierError)

\* C29: a templateId of 0 is treated as not supplied: with a non-empty alias the
\* request goes out with that alias and no TemplateId; with no alias or an empty
\* one the call fails with 'Either templateId or templateAlias must be provided.'
\* and no request reaches the provider.
C29_ZeroIdNotSupplied ==
  \A c \in DOMAIN calls :
    ZeroTemplateId(c) =>
      IF NonEmptyString(calls[c].args.templateAlias)
      THEN /\ calls[c].reqs # <<>>
           /\ "TemplateId" \notin DOMAIN Request(c)
           /\ "TemplateAlias" \in DOMAIN Request(c)
           /\ Request(c).TemplateAlias = calls[c].args.templateAlias
      ELSE calls[c].reqs = <<>> /\ FailedForIdentifier(c)

\* templateId 0 with an empty alias, refused by the handler.
C29_Witness ==
  /\ ZeroTemplateId(1)
  /\ calls[1].args.templateAlias = Str("")
  /\ calls[1].reqs = <<>>
  /\ FailedForIdentifier(1)

\* C30: getOutboundMessages puts its defaults in place of omitted fields only: a
\* count or an offset the caller supplied, 0 included, goes to the provider
\* unchanged.
C30_SuppliedCountOffsetKept ==
  \A c \in DOMAIN calls :
    Reached(c, "getOutboundMessages") =>
      /\ Supplied(calls[c].args, "count") => Request(c).count = calls[c].args.count
      /\ Supplied(calls[c].args, "offset") => Request(c).offset = calls[c].args.offset

\* A call with count 0 and offset 0: the provider is asked for 0 messages from 0.
C30_Witness ==
  \E c \in DOMAIN calls :
    /\ Reached(c, "getOutboundMessages")
    /\ calls[c].args.count = Num(0) /\ calls[c].args.offset = Num(0)
    /\ Request(c) = [count |-> Num(0), offset |-> Num(0)]

====
